---- MODULE Spec2Model ----
(***************************************************************************)
(* Cross-chain bridge event listener (src/script.py).                      *)
(*                                                                         *)
(* The model follows EventListenerService.run: one sequential process      *)
(* whose position is pc.  A poll cycle is                                  *)
(*   loop -> src (-> srcLog <-> relay)* -> dst (-> dstLog)* -> sleep       *)
(* and an unhandled exception sends it to backoff.  The two chains, the    *)
(* relayer and the interrupt signal are the environment.                   *)
(*                                                                         *)
(* Block numbers are 1..Len(chain); every mined block carries one log of   *)
(* the bridge contract with the scanned topic, and the log's transaction   *)
(* hash is its block number.  A range without logs and a failed log query  *)
(* are the same to a scan ("if logs:" is false for [] and for None); both  *)
(* are the empty answer of the log query.                                  *)
(* Transaction ids (uuid4) are the position of the record in the store,    *)
(* which is also the insertion order of the Python dict.                   *)
(* created_at / updated_at and the event args are not modelled.            *)
(***************************************************************************)
EXTENDS Integers, Sequences, FiniteSets

\* Highest block the source / destination chain grows to.
MaxSrcHeight == 2
MaxDstHeight == 2

PENDING == "PENDING"
RELAYED == "RELAYED"
COMPLETED == "COMPLETED"
FAILED == "FAILED"
TransactionStatus == {PENDING, RELAYED, COMPLETED, FAILED}

\* get_latest_block_number's answer when the height cannot be read.
Unavailable == -1

\* Key absent from a record's dict.
NoHash == 0
NoError == ""

\* What a block of the source chain holds for the deposit topic: a
\* DepositInitiated log that decodes, or a log that fails to decode.
SrcBlockKinds == {"deposit", "malformed"}
\* The same for the destination chain and the TransferCompleted topic.
DstBlockKinds == {"completed", "malformed"}

\* What the relayer does with one POST: 200 with a JSON body, 200 with a
\* body that is not JSON, another status code, a RequestException (timeout
\* included).
RelayReplies == {"ok_json", "ok_not_json", "bad_status", "network_error"}

VARIABLES
  pc,                          \* position of run()
  running,                     \* self.running
  transactions,                \* tx_manager.transactions, in insertion order
  last_processed_source_block, \* source cursor
  last_processed_dest_block,   \* destination cursor
  source_web3,                 \* source_connector.web3 is not None
  dest_web3,                   \* dest_connector.web3 is not None
  source_handler,              \* the attribute self.source_handler exists
  dest_handler,                \* the attribute self.dest_handler exists
  relayer_endpoint,            \* config['relayer_api_endpoint'] is non-empty
  source_chain,                \* blocks of the source chain
  dest_chain,                  \* blocks of the destination chain
  from_block,                  \* local of the running scan
  to_block,                    \* local of the running scan
  logs,                        \* logs of the batch not yet iterated
  relayed_txs,                 \* local working list of the destination scan
  relayed_at_start,            \* history: relayed_txs as first computed
  scanning,                    \* history: the scan this iteration ran last,
                               \*   "backoff" once the previous one raised
  latest_block,                \* history: the height that scan read
  calls,                       \* history: connector/relayer calls of that scan
  response,                    \* history: how the relay call just made ended
  start_height_source,         \* history: source height at construction
  start_height_dest            \* history: destination height at construction

vars == <<pc, running, transactions, last_processed_source_block,
          last_processed_dest_block, source_web3, dest_web3, source_handler,
          dest_handler, relayer_endpoint, source_chain, dest_chain,
          from_block, to_block, logs, relayed_txs, relayed_at_start,
          scanning, latest_block, calls, response, start_height_source,
          start_height_dest>>

config == <<source_handler, dest_handler, relayer_endpoint,
            start_height_source, start_height_dest>>
source_side == <<last_processed_source_block, source_web3, source_chain>>
dest_side == <<last_processed_dest_block, dest_web3, dest_chain>>
frame == <<from_block, to_block, logs, relayed_txs, relayed_at_start>>
history == <<scanning, latest_block, calls, response>>
locals == <<frame, history>>

----------------------------------------------------------------------------
\* Pure helpers

\* The logs of the blocks from..to that exist, ascending: what eth.get_logs
\* returns for the contract address and topic.
RECURSIVE LogsInRange(_, _, _)
LogsInRange(chain, from, to) ==
  IF from > to THEN <<>>
  ELSE IF from >= 1 /\ from <= Len(chain)
       THEN <<from>> \o LogsInRange(chain, from + 1, to)
       ELSE LogsInRange(chain, from + 1, to)

\* BridgeContractEventHandler.decode_log: the decoded event's transaction
\* hash, or NoHash (None) when process_log raises.
decode_log(chain, log) ==
  IF chain[log] \in {"deposit", "completed"} THEN log ELSE NoHash

\* CrossChainTransactionManager.initiate_transaction
NewRecord(tx_id, hash) ==
  [id |-> tx_id, status |-> PENDING, source_tx_hash |-> hash,
   dest_tx_hash |-> NoHash, error |-> NoError]

\* Faulty variant of initiate_transaction: the id collides with the last
\* record's, whose slot is overwritten.
OverwriteLastRecord(T, hash) ==
  IF T = <<>> THEN Append(T, NewRecord(1, hash))
  ELSE [T EXCEPT ![Len(T)] = NewRecord(Len(T), hash)]

initiate_transaction(T, hash) == Append(T, NewRecord(Len(T) + 1, hash))

\* Faulty variants of update_transaction_status: the details are not
\* merged; an absent id is inserted instead of being reported.
UpdateStatusOnly(T, tx_id, new_status, details) ==
  IF tx_id \in DOMAIN T
  THEN [T EXCEPT ![tx_id].status = new_status]
  ELSE T

UpdateOrInsert(T, tx_id, new_status, details) ==
  IF tx_id \in DOMAIN T
  THEN [T EXCEPT ![tx_id] =
          [k \in DOMAIN T[tx_id] |->
             IF k = "status" THEN new_status
             ELSE IF k \in DOMAIN details THEN details[k]
             ELSE T[tx_id][k]]]
  ELSE Append(T, [NewRecord(tx_id, NoHash) EXCEPT !.status = new_status])

\* CrossChainTransactionManager.update_transaction_status; details is a
\* record of the keys to merge (the empty record <<>> for None).
update_transaction_status(T, tx_id, new_status, details) ==
  IF tx_id \in DOMAIN T
  THEN [T EXCEPT ![tx_id] =
          [k \in DOMAIN T[tx_id] |->
             IF k = "status" THEN new_status
             ELSE IF k \in DOMAIN details THEN details[k]
             ELSE T[tx_id][k]]]
  ELSE T

RECURSIVE IdsWithStatus(_, _, _)
IdsWithStatus(T, status, i) ==
  IF i > Len(T) THEN <<>>
  ELSE IF T[i].status = status
       THEN <<i>> \o IdsWithStatus(T, status, i + 1)
       ELSE IdsWithStatus(T, status, i + 1)

\* Faulty variants of get_transactions_by_status: the status filter is
\* dropped; the list comes newest first.
AnyStatusIds(T, status) == [i \in 1..Len(T) |-> i]

\* Faulty variant: the comparison is inverted.
RECURSIVE IdsWithOtherStatus(_, _, _)
IdsWithOtherStatus(T, status, i) ==
  IF i > Len(T) THEN <<>>
  ELSE IF T[i].status # status
       THEN <<i>> \o IdsWithOtherStatus(T, status, i + 1)
       ELSE IdsWithOtherStatus(T, status, i + 1)

OtherStatusIds(T, status) == IdsWithOtherStatus(T, status, 1)

NewestFirstIds(T, status) ==
  [i \in 1..Len(IdsWithStatus(T, status, 1)) |->
     IdsWithStatus(T, status, 1)[Len(IdsWithStatus(T, status, 1)) + 1 - i]]

\* CrossChainTransactionManager.get_transactions_by_status: the ids of the
\* matching records in dict (insertion) order.
get_transactions_by_status(T, status) == IdsWithStatus(T, status, 1)

\* _simulate_relay_action's status update for each way the POST can end.
\* response.json() is evaluated for the log line before the RELAYED update;
\* on a body that is not JSON it raises requests' JSONDecodeError, a
\* RequestException, so the except clause records a network error.
RelayResult(reply) ==
  CASE reply = "ok_json" -> [status |-> RELAYED, details |-> <<>>]
    [] reply = "ok_not_json" ->
         [status |-> FAILED, details |-> [error |-> "Relayer network error"]]
    [] reply = "bad_status" ->
         [status |-> FAILED, details |-> [error |-> "Relayer API Error"]]
    [] reply = "network_error" ->
         [status |-> FAILED, details |-> [error |-> "Relayer network error"]]

\* Faulty variant of NotConfiguredResult: the status update is forgotten.
NotConfiguredLeftPending == [status |-> PENDING, details |-> <<>>]

NotConfiguredResult ==
  [status |-> FAILED, details |-> [error |-> "Relayer not configured"]]

----------------------------------------------------------------------------
\* State after EventListenerService.__init__.  Each connector has either
\* connected (its handler is built and its cursor is the height read at
\* construction) or not (no handler attribute, and the cursor is the -1
\* that get_latest_block_number returns); main() puts no start_block_* in
\* config.  The locals of the scans do not exist yet.
Init ==
  /\ pc = "loop"
  /\ running = TRUE
  /\ transactions = <<>>
  /\ source_chain \in {<<>>, <<"deposit">>}
  /\ dest_chain \in {<<>>, <<"completed">>}
  /\ start_height_source = Len(source_chain)
  /\ start_height_dest = Len(dest_chain)
  /\ source_web3 \in BOOLEAN
  /\ dest_web3 \in BOOLEAN
  /\ source_handler = source_web3
  /\ dest_handler = dest_web3
  /\ last_processed_source_block =
       IF source_web3 THEN Len(source_chain) ELSE Unavailable
  /\ last_processed_dest_block =
       IF dest_web3 THEN Len(dest_chain) ELSE Unavailable
  /\ relayer_endpoint \in BOOLEAN
  /\ from_block = 0
  /\ to_block = 0
  /\ logs = <<>>
  /\ relayed_txs = <<>>
  /\ relayed_at_start = <<>>
  /\ scanning = "none"
  /\ latest_block = 0
  /\ calls = {}
  /\ response = "none"

----------------------------------------------------------------------------
\* Environment

\* A block is mined on the source chain.  The listener reads the chain only
\* at the start of a source scan, so growth is placed there.
SourceBlockMined ==
  /\ pc = "src"
  /\ Len(source_chain) < MaxSrcHeight
  /\ \E kind \in SrcBlockKinds : source_chain' = Append(source_chain, kind)
  /\ UNCHANGED <<pc, running, transactions, last_processed_source_block,
                 source_web3, dest_side, config, locals>>

DestBlockMined ==
  /\ pc = "dst"
  /\ Len(dest_chain) < MaxDstHeight
  /\ \E kind \in DstBlockKinds : dest_chain' = Append(dest_chain, kind)
  /\ UNCHANGED <<pc, running, transactions, last_processed_dest_block,
                 dest_web3, source_side, config, locals>>

----------------------------------------------------------------------------
\* run(): while self.running
LoopCheck ==
  /\ pc = "loop"
  /\ pc' = IF running THEN "src" ELSE "exited"
  /\ UNCHANGED <<running, transactions, source_side, dest_side, config, locals>>

----------------------------------------------------------------------------
\* Faulty variant of AdvanceCursor: the cursor update is lost.
CursorNotAdvanced(cursor, to) == cursor

\* The cursor after a range has been iterated (script.py lines 224, 294).
AdvanceCursor(cursor, to) == to

\* BlockchainConnector.is_connected: the web3 object exists and the
\* endpoint answers (answers: what the node does at this call).
is_connected(web3, answers) == web3 /\ answers

\* A scan returns or is left by an exception: its locals are gone.
FrameDropped ==
  /\ from_block' = 0
  /\ to_block' = 0
  /\ logs' = <<>>
  /\ relayed_txs' = <<>>
  /\ relayed_at_start' = <<>>

\* The iteration is over: so is what is remembered of its scans.
HistoryDropped ==
  /\ scanning' = "none"
  /\ latest_block' = 0
  /\ calls' = {}
  /\ response' = "none"

\* Faulty variant of NothingNew: only an unchanged height ends the scan.
NothingNewOnlyIfEqual(latest, cursor) == latest = cursor

\* "if latest_block <= self.last_processed_*_block: return" (lines 204, 266)
NothingNew(latest, cursor) == latest <= cursor

\* _process_source_chain_events up to the first iteration of the loop over
\* the logs: the connectivity check, the height, the log query.
SourceScanBegin ==
  /\ pc = "src"
  /\ scanning' = "source"
  /\ response' = "none"
  /\ \E answers \in BOOLEAN :
       IF ~is_connected(source_web3, answers)
       THEN \* connect(), then return
            /\ \E reachable \in BOOLEAN : source_web3' = reachable
            /\ calls' = {"connect"}
            /\ latest_block' = 0
            /\ FrameDropped
            /\ pc' = "dst"
            /\ UNCHANGED last_processed_source_block
       ELSE \E latest \in {Len(source_chain), Unavailable} :
            /\ latest_block' = latest
            /\ UNCHANGED source_web3
            /\ IF NothingNew(latest, last_processed_source_block)
               THEN /\ calls' = {"height"}
                    /\ FrameDropped
                    /\ pc' = "dst"
                    /\ UNCHANGED last_processed_source_block
               ELSE /\ calls' = {"height", "logs"}
                    /\ \E found \in {<<>>, LogsInRange(source_chain,
                                       last_processed_source_block + 1, latest)} :
                         \* <<>> also stands for None: "if logs" is false
                         IF found # <<>>
                         THEN /\ to_block' = latest
                              /\ from_block' = last_processed_source_block + 1
                              /\ logs' = found
                              /\ relayed_txs' = <<>>
                              /\ relayed_at_start' = <<>>
                              /\ pc' = "srcLog"
                              /\ UNCHANGED last_processed_source_block
                         ELSE /\ FrameDropped
                              /\ pc' = "dst"
                              /\ last_processed_source_block' =
                                   AdvanceCursor(last_processed_source_block, latest)
  /\ UNCHANGED <<running, transactions, source_chain, dest_side, config>>

\* One iteration of "for log in logs" up to initiate_transaction, or the
\* cursor update when the loop is over.  With no source_handler attribute
\* the first iteration raises AttributeError.
SourceScanLog ==
  /\ pc = "srcLog"
  /\ IF logs = <<>>
     THEN /\ last_processed_source_block' =
               AdvanceCursor(last_processed_source_block, to_block)
          /\ pc' = "dst"
          /\ FrameDropped
          /\ UNCHANGED transactions
     ELSE IF ~source_handler
     THEN /\ pc' = "backoff"
          /\ FrameDropped
          /\ UNCHANGED <<transactions, last_processed_source_block>>
     ELSE /\ logs' = Tail(logs)
          /\ UNCHANGED <<last_processed_source_block, from_block, to_block,
                         relayed_txs, relayed_at_start>>
          /\ IF decode_log(source_chain, Head(logs)) = NoHash
             THEN UNCHANGED <<pc, transactions>>
             ELSE /\ transactions' = initiate_transaction(transactions,
                                       decode_log(source_chain, Head(logs)))
                  /\ pc' = "relay"
  /\ response' = "none"
  /\ UNCHANGED <<running, source_web3, source_chain, dest_side, config,
                 scanning, latest_block, calls>>

\* _simulate_relay_action for the record just created.
SimulateRelayAction ==
  /\ pc = "relay"
  /\ LET tx_id == Len(transactions) IN
       IF ~relayer_endpoint
       THEN /\ transactions' = update_transaction_status(transactions, tx_id,
                                 NotConfiguredResult.status,
                                 NotConfiguredResult.details)
            /\ response' = "unconfigured"
            /\ UNCHANGED calls
       ELSE \E reply \in RelayReplies :
            /\ transactions' = update_transaction_status(transactions, tx_id,
                                 RelayResult(reply).status,
                                 RelayResult(reply).details)
            /\ response' = reply
            /\ calls' = calls \cup {"post"}
  /\ pc' = "srcLog"
  /\ UNCHANGED <<running, source_side, dest_side, config, frame, scanning,
                 latest_block>>

----------------------------------------------------------------------------
\* _process_destination_chain_events up to the first iteration of the loop
\* over the logs.  With logs but no RELAYED transaction it returns at once
\* (line 281), before the cursor update of line 294.
DestScanBegin ==
  /\ pc = "dst"
  /\ scanning' = "dest"
  /\ response' = "none"
  /\ \E answers \in BOOLEAN :
       IF ~is_connected(dest_web3, answers)
       THEN /\ \E reachable \in BOOLEAN : dest_web3' = reachable
            /\ calls' = {"connect"}
            /\ latest_block' = 0
            /\ FrameDropped
            /\ pc' = "sleep"
            /\ UNCHANGED last_processed_dest_block
       ELSE \E latest \in {Len(dest_chain), Unavailable} :
            /\ latest_block' = latest
            /\ UNCHANGED dest_web3
            /\ IF NothingNew(latest, last_processed_dest_block)
               THEN /\ calls' = {"height"}
                    /\ FrameDropped
                    /\ pc' = "sleep"
                    /\ UNCHANGED last_processed_dest_block
               ELSE /\ calls' = {"height", "logs"}
                    /\ \E found \in {<<>>, LogsInRange(dest_chain,
                                       last_processed_dest_block + 1, latest)} :
                         IF found = <<>>
                         THEN /\ FrameDropped
                              /\ pc' = "sleep"
                              /\ last_processed_dest_block' =
                                   AdvanceCursor(last_processed_dest_block, latest)
                         ELSE IF get_transactions_by_status(transactions, RELAYED) = <<>>
                         THEN /\ FrameDropped
                              /\ pc' = "sleep"
                              /\ UNCHANGED last_processed_dest_block
                         ELSE /\ to_block' = latest
                              /\ from_block' = last_processed_dest_block + 1
                              /\ logs' = found
                              /\ relayed_txs' =
                                   get_transactions_by_status(transactions, RELAYED)
                              /\ relayed_at_start' = relayed_txs'
                              /\ pc' = "dstLog"
                              /\ UNCHANGED last_processed_dest_block
  /\ UNCHANGED <<running, transactions, dest_chain, source_side, config>>

\* One iteration of "for log in logs" of the destination scan, or the
\* cursor update when the loop is over.  relayed_txs[0] on the emptied
\* working list raises IndexError; a missing dest_handler attribute raises
\* AttributeError.
DestScanLog ==
  /\ pc = "dstLog"
  /\ IF logs = <<>>
     THEN /\ last_processed_dest_block' =
               AdvanceCursor(last_processed_dest_block, to_block)
          /\ pc' = "sleep"
          /\ FrameDropped
          /\ UNCHANGED transactions
     ELSE IF ~dest_handler
     THEN /\ pc' = "backoff"
          /\ FrameDropped
          /\ UNCHANGED <<transactions, last_processed_dest_block>>
     ELSE IF decode_log(dest_chain, Head(logs)) = NoHash
     THEN /\ logs' = Tail(logs)
          /\ UNCHANGED <<pc, transactions, relayed_txs, last_processed_dest_block,
                         from_block, to_block, relayed_at_start>>
     ELSE IF relayed_txs = <<>>
     THEN /\ pc' = "backoff"
          /\ FrameDropped
          /\ UNCHANGED <<transactions, last_processed_dest_block>>
     ELSE /\ transactions' = update_transaction_status(transactions,
                               Head(relayed_txs), COMPLETED,
                               [dest_tx_hash |-> decode_log(dest_chain, Head(logs))])
          /\ relayed_txs' = Tail(relayed_txs)
          /\ logs' = Tail(logs)
          /\ UNCHANGED <<pc, last_processed_dest_block, from_block, to_block,
                         relayed_at_start>>
  /\ UNCHANGED <<running, dest_web3, dest_chain, source_side, config, history>>

\* time.sleep(poll_interval) returns: next iteration.
Sleep ==
  /\ pc = "sleep"
  /\ pc' = "loop"
  /\ HistoryDropped
  /\ UNCHANGED <<running, transactions, source_side, dest_side, config, frame>>

\* Faulty variant of AfterBackoff: the error handler stops the service.
StopAfterBackoff == [pc |-> "loop", running |-> FALSE]

\* Where run() goes when time.sleep(60) of the "except Exception" clause
\* returns, and what it leaves in self.running.
AfterBackoff == [pc |-> "loop", running |-> running]

Backoff ==
  /\ pc = "backoff"
  /\ pc' = AfterBackoff.pc
  /\ running' = AfterBackoff.running
  /\ scanning' = "backoff"
  /\ latest_block' = 0
  /\ calls' = {}
  /\ response' = "none"
  /\ UNCHANGED <<transactions, source_side, dest_side, config, frame>>

\* The positions inside the try block of run().
InTry == {"src", "srcLog", "relay", "dst", "dstLog", "sleep"}

\* KeyboardInterrupt raised inside the try block: the except clause sets
\* self.running = False and the while condition ends the loop.
InterruptInTry ==
  /\ pc \in InTry
  /\ running' = FALSE
  /\ pc' = "loop"
  /\ FrameDropped
  /\ HistoryDropped
  /\ UNCHANGED <<transactions, source_side, dest_side, config>>

\* KeyboardInterrupt raised during time.sleep(60) of the "except Exception"
\* clause: no handler encloses it, it leaves run().
InterruptInBackoff ==
  /\ pc = "backoff"
  /\ pc' = "raised"
  /\ HistoryDropped
  /\ UNCHANGED <<running, transactions, source_side, dest_side, config, frame>>

Next ==
  \/ SourceBlockMined
  \/ DestBlockMined
  \/ LoopCheck
  \/ SourceScanBegin
  \/ SourceScanLog
  \/ SimulateRelayAction
  \/ DestScanBegin
  \/ DestScanLog
  \/ Sleep
  \/ Backoff
  \/ InterruptInTry
  \/ InterruptInBackoff

Spec == Init /\ [][Next]_vars

TypeOK ==
  /\ pc \in InTry \cup {"loop", "backoff", "exited", "raised"}
  /\ running \in BOOLEAN
  /\ scanning \in {"none", "source", "dest", "backoff"}
  /\ response \in RelayReplies \cup {"none", "unconfigured"}
  /\ \A i \in DOMAIN transactions : transactions[i].status \in TransactionStatus

----------------------------------------------------------------------------
\* Properties

StatusOf(i) == transactions[i].status
Range(seq) == {seq[i] : i \in DOMAIN seq}
RecordsOf(hash) == {i \in DOMAIN transactions : transactions[i].source_tx_hash = hash}

\* C1: in every step, interrupted and failing cycles included, a record
\* that changes status goes PENDING -> RELAYED, PENDING -> FAILED or
\* RELAYED -> COMPLETED and no record disappears; so each record's status
\* sequence is a prefix of PENDING, RELAYED, COMPLETED or of PENDING,
\* FAILED, never revisits a status and never leaves COMPLETED or FAILED.
C1_StatusMovesForward ==
  [][/\ Len(transactions') >= Len(transactions)
     /\ \A i \in DOMAIN transactions :
          transactions'[i].status # transactions[i].status =>
            <<transactions[i].status, transactions'[i].status>> \in
              {<<PENDING, RELAYED>>, <<PENDING, FAILED>>, <<RELAYED, COMPLETED>>}]_vars

\* A COMPLETED and a FAILED record side by side, after a cycle that raised.
C1_Witness ==
  /\ scanning = "backoff"
  /\ \E i \in DOMAIN transactions : StatusOf(i) = COMPLETED
  /\ \E i \in DOMAIN transactions : StatusOf(i) = FAILED

\* C2: no source log has two records; every record stems from a deposit
\* log; during a source scan each deposit log of the batch already
\* iterated has exactly one record; and the record just created is PENDING
\* until _simulate_relay_action is entered for it.
C2_OneRecordPerDeposit ==
  /\ \A b \in 1..Len(source_chain) : Cardinality(RecordsOf(b)) <= 1
  /\ \A i \in DOMAIN transactions :
       /\ transactions[i].source_tx_hash \in 1..Len(source_chain)
       /\ source_chain[transactions[i].source_tx_hash] = "deposit"
  /\ pc \in {"srcLog", "relay"} =>
       \A b \in from_block..to_block :
         (b >= 1 /\ b \notin Range(logs) /\ source_chain[b] = "deposit")
           => Cardinality(RecordsOf(b)) = 1
  /\ pc = "relay" =>
       /\ transactions # <<>>
       /\ StatusOf(Len(transactions)) = PENDING
       /\ \A i \in 1..(Len(transactions) - 1) : StatusOf(i) # PENDING

\* The second deposit of a batch has its record, PENDING, about to be relayed.
C2_Witness ==
  /\ pc = "relay"
  /\ Len(transactions) = 2
  /\ from_block = 1 /\ to_block = 2
  /\ StatusOf(2) = PENDING

\* C3: when a source scan that read a height above the cursor is over,
\* by return or by exception, the source cursor is that height.
C3_SourceCursorReachesHeight ==
  (scanning = "source" /\ pc \in {"dst", "backoff"} /\ "logs" \in calls)
    => last_processed_source_block = latest_block

\* C4: when a destination scan that read a height above the cursor has
\* returned, the destination cursor is that height.
C4_DestCursorReachesHeight ==
  (scanning = "dest" /\ pc = "sleep" /\ "logs" \in calls)
    => last_processed_dest_block = latest_block

\* The completion events of a sequence of destination logs.
RECURSIVE CompletionEvents(_)
CompletionEvents(batch) ==
  IF batch = <<>> THEN <<>>
  ELSE IF decode_log(dest_chain, Head(batch)) # NoHash
       THEN <<decode_log(dest_chain, Head(batch))>> \o CompletionEvents(Tail(batch))
       ELSE CompletionEvents(Tail(batch))

\* The events of the batch of the running destination scan, and how many
\* of them the loop has handled.
BatchEvents == CompletionEvents(LogsInRange(dest_chain, from_block, to_block))
EventsHandled == Len(BatchEvents) - Len(CompletionEvents(logs))

C6_DispatchOutcome ==
  (pc = "srcLog" /\ response # "none") =>
    LET r == transactions[Len(transactions)] IN
      /\ r.status # PENDING
      /\ response \in {"ok_json", "ok_not_json"} => r.status = RELAYED
      /\ response \in {"bad_status", "network_error", "unconfigured"} =>
           (r.status = FAILED /\ r.error # NoError)

\* C7: run() is left only through the loop condition with running false,
\* and running becomes false only inside the try block, never in the error
\* handler; when the backoff sleep returns, run() is back at the loop
\* condition with running true, and the loop condition then starts the
\* next iteration.
C7_LoopSurvivesErrors ==
  [][/\ pc' = "exited" => (pc = "loop" /\ ~running)
     /\ (running /\ ~running') => pc \in InTry
     /\ (pc = "backoff" /\ pc' \notin {"backoff", "raised"}) =>
          (pc' = "loop" /\ running')
     /\ (pc = "loop" /\ running) => pc' \in {"loop", "src"}]_vars

\* An iteration has started after a scan raised and the backoff was slept.
C7_Witness ==
  /\ pc = "src"
  /\ scanning = "backoff"
  /\ running

\* C8: an interrupt never propagates out of run().
C8_InterruptNeverPropagates == pc # "raised"

\* C9: a stop takes effect only between cycles: running becomes false only
\* once both scans of the iteration have returned.
C9_StopOnlyBetweenCycles ==
  [][(running /\ ~running') => pc = "sleep"]_vars

\* C10 as claimed: a source scan whose height query answers -1 queries no
\* logs, creates no record, leaves the cursor alone and calls connect().
C10_UnavailableHeightReconnects ==
  [][(pc = "src" /\ scanning' = "source" /\ latest_block' = Unavailable) =>
       /\ "logs" \notin calls'
       /\ transactions' = transactions
       /\ last_processed_source_block' = last_processed_source_block
       /\ "connect" \in calls']_vars

\* C10 amended: a source scan whose height query answers -1 queries no
\* logs, creates no record, leaves the cursor alone and returns without
\* calling connect(); connect() is called only by a scan that found the
\* connector disconnected at its start and so asked for no height.
C10_UnavailableHeightSkipsScan ==
  [][/\ (pc = "src" /\ scanning' = "source" /\ latest_block' = Unavailable) =>
          /\ calls' = {"height"}
          /\ transactions' = transactions
          /\ last_processed_source_block' = last_processed_source_block
          /\ source_web3' = source_web3
          /\ pc' = "dst"
     /\ (pc = "src" /\ scanning' = "source" /\ "connect" \in calls') =>
          (calls' = {"connect"} /\ last_processed_source_block' =
                                      last_processed_source_block)]_vars

\* A source scan has returned after the connected connector answered -1,
\* with blocks waiting beyond the cursor.
C10_Witness ==
  /\ pc = "dst"
  /\ scanning = "source"
  /\ latest_block = Unavailable
  /\ calls = {"height"}
  /\ source_web3
  /\ Len(source_chain) > last_processed_source_block

\* C11: with no relay endpoint configured, the dispatch of a record sets
\* it FAILED with the error "Relayer not configured" and makes no POST; the
\* scan goes on with the rest of the batch, which it leaves only for the
\* cursor update to the height it read (or by an interrupt), never by an
\* exception.
C11_UnconfiguredRelayFailsAndContinues ==
  [][~relayer_endpoint =>
       /\ (pc = "relay" /\ pc' # "relay" /\ running') =>
            /\ pc' = "srcLog"
            /\ logs' = logs
            /\ Len(transactions') = Len(transactions)
            /\ transactions'[Len(transactions)].status = FAILED
            /\ transactions'[Len(transactions)].error = "Relayer not configured"
            /\ "post" \notin calls'
            /\ response' = "unconfigured"
       /\ (pc \in {"srcLog", "relay"} /\ source_handler) => pc' # "backoff"
       /\ (pc = "srcLog" /\ pc' = "dst") =>
            /\ logs = <<>>
            /\ last_processed_source_block' = latest_block
            /\ latest_block = Len(source_chain)]_vars

\* The unconfigured dispatch has failed the first record of a batch of two
\* logs and the loop is about to take the second.
C11_Witness ==
  /\ ~relayer_endpoint
  /\ pc = "srcLog"
  /\ response = "unconfigured"
  /\ logs = <<2>>
  /\ StatusOf(1) = FAILED

\* C12: _simulate_relay_action is entered only for a record created in
\* that very step, so no id is dispatched twice; the dispatch touches that
\* record alone; and a FAILED record never changes again.
C12_NoRetry ==
  [][/\ (pc # "relay" /\ pc' = "relay") =>
          /\ Len(transactions') = Len(transactions) + 1
          /\ \A i \in DOMAIN transactions : transactions'[i] = transactions[i]
     /\ (pc = "relay" /\ pc' = "srcLog") =>
          /\ Len(transactions') = Len(transactions)
          /\ \A i \in 1..(Len(transactions) - 1) :
               transactions'[i] = transactions[i]
     /\ \A i \in DOMAIN transactions :
          StatusOf(i) = FAILED =>
            (i \in DOMAIN transactions' /\ transactions'[i] = transactions[i])]_vars

\* A record FAILED in an earlier cycle, and a new record about to be relayed.
C12_Witness ==
  /\ pc = "relay"
  /\ Len(transactions) = 2
  /\ StatusOf(1) = FAILED
  /\ from_block = 2

\* C13: no log query of a chain starts at or below the height the chain
\* had when the service was constructed.
C13_NoHistoricalBlockQueried ==
  /\ pc = "srcLog" => from_block > start_height_source
  /\ pc = "dstLog" => from_block > start_height_dest

\* C14: a record carries a destination transaction hash exactly when its
\* status is COMPLETED.
C14_DestHashIffCompleted ==
  \A i \in DOMAIN transactions :
    (transactions[i].dest_tx_hash # NoHash) <=> (StatusOf(i) = COMPLETED)

\* A COMPLETED record with its hash beside a FAILED record without one.
C14_Witness ==
  /\ \E i \in DOMAIN transactions :
       StatusOf(i) = COMPLETED /\ transactions[i].dest_tx_hash \in 1..Len(dest_chain)
  /\ \E i \in DOMAIN transactions :
       StatusOf(i) = FAILED /\ transactions[i].dest_tx_hash = NoHash

\* Ids the store does not hold, for the lookup-failure case.
AbsentIds == {0, Len(transactions) + 1}

\* C15: in every step each record stays in the store under its id with its
\* 'id' and 'source_tx_hash' fields unchanged, and in every reachable store
\* update_transaction_status with an absent id returns the store as it is.
C15_StoreIsAdditive ==
  [][/\ Len(transactions') >= Len(transactions)
     /\ \A i \in DOMAIN transactions :
          /\ transactions[i].id = i
          /\ transactions'[i].id = transactions[i].id
          /\ transactions'[i].source_tx_hash = transactions[i].source_tx_hash
     /\ \A tx_id \in AbsentIds : \A st \in TransactionStatus :
          /\ update_transaction_status(transactions, tx_id, st, <<>>) = transactions
          /\ update_transaction_status(transactions, tx_id, st,
               [error |-> "Relayer API Error"]) = transactions]_vars

\* Two records, created in different cycles, both updated since.
C15_Witness ==
  /\ Len(transactions) = 2
  /\ StatusOf(1) = COMPLETED
  /\ StatusOf(2) = FAILED
  /\ transactions[2].source_tx_hash = 2

\* C16: a step of the destination scan creates no record, leaves every
\* record that is not RELAYED as it is, changes a RELAYED record only to
\* COMPLETED and leaves the source cursor alone.
C16_DestScanOnlyCompletes ==
  [][(pc = "dst" \/ pc = "dstLog") =>
       /\ Len(transactions') = Len(transactions)
       /\ last_processed_source_block' = last_processed_source_block
       /\ \A i \in DOMAIN transactions :
            /\ StatusOf(i) # RELAYED => transactions'[i] = transactions[i]
            /\ transactions'[i].status \in {StatusOf(i), COMPLETED}
            /\ (transactions'[i].status = FAILED) => (StatusOf(i) = FAILED)]_vars

\* The destination loop has completed a record while a FAILED one exists.
C16_Witness ==
  /\ pc = "dstLog"
  /\ EventsHandled >= 1
  /\ \E i \in DOMAIN transactions : StatusOf(i) = COMPLETED
  /\ \E i \in DOMAIN transactions : StatusOf(i) = FAILED

\* C17: a step of a destination scan whose batch holds more recognized
\* completion events than there were RELAYED transactions at its start never
\* raises, and the step that ends the scan leaves the cursor at the observed
\* height and every one of those transactions COMPLETED.
C17_SurplusEventsIgnored ==
  [][(pc = "dstLog" /\ dest_handler /\ Len(BatchEvents) > Len(relayed_at_start)) =>
       /\ pc' # "backoff"
       /\ (pc' = "sleep") =>
            /\ last_processed_dest_block' = to_block
            /\ \A k \in DOMAIN relayed_at_start :
                 transactions'[relayed_at_start[k]].status = COMPLETED]_vars

\* C18: no completion log has completed two records, i.e. no two records
\* carry the same destination transaction hash.
C18_OneCompletionPerLog ==
  \A i, j \in DOMAIN transactions :
    (i # j /\ transactions[i].dest_tx_hash # NoHash)
      => transactions[i].dest_tx_hash # transactions[j].dest_tx_hash

\* C19: between cycles (at the loop condition, in the normal sleep or in
\* the backoff sleep) no record is PENDING.
C19_NoPendingBetweenCycles ==
  pc \in {"loop", "sleep", "backoff"} =>
    \A i \in DOMAIN transactions : StatusOf(i) # PENDING

\* C20: a scan that has logs to decode, also the scan of a chain whose
\* connector was unreachable at construction and has connected since, has
\* the chain's event handler to decode them with.
C20_HandlerPresentAfterReconnect ==
  /\ (pc = "srcLog" /\ logs # <<>>) => source_handler
  /\ (pc = "dstLog" /\ logs # <<>>) => dest_handler

====
